---- MODULE Spec2Model ----
(***************************************************************************)
(* Model of the task-dependency scheduler of my_orchestrator:              *)
(*   utility/lock.py   Lock.acquire, Lock.release                          *)
(*   utility/tasks.py  Task.check_status, Task.run, Task.copy_config,      *)
(*                     TaskRunner.__init__, create_tasks, run              *)
(* The durable state is the directory tree with its SUCCESS / FAILED       *)
(* markers and the lock file; every scheduler invocation is a process that *)
(* rebuilds its Task objects from the tree.                                *)
(***************************************************************************)
EXTENDS Integers, Sequences, FiniteSets, TLC

\* ------------------------------------------------------------------ bounds
MaxInv == 3
MaxProc == 2

Procs == 1..MaxProc

\* ------------------------------------------------------- the sweep tree
\* A directory is the sequence of its path components.
RUNS == <<"runs">>

FlatTree == {RUNS, <<"runs", "run_1">>, <<"runs", "run_2">>}

SweepTree ==
  {RUNS, <<"runs", "cfgA">>, <<"runs", "cfgA", "run_1">>,
   <<"runs", "cfgA", "run_2">>, <<"runs", "cfgB">>,
   <<"runs", "cfgB", "run_1">>}

Trees == {FlatTree, SweepTree}

AllDirs == FlatTree \cup SweepTree

\* component names in ascending listing order
NameOrder == <<"cfgA", "cfgB", "run_1", "run_2">>

RunNames == {"run_1", "run_2"}

Listings == {"asc", "desc"}

\* the values of tasks_directory handed to TaskRunner
Roots ==
  { [str |-> "./runs", path |-> RUNS, slash |-> FALSE],
    [str |-> "runs/", path |-> RUNS, slash |-> TRUE],
    [str |-> "runs/cfgA", path |-> <<"runs", "cfgA">>, slash |-> FALSE],
    [str |-> "runs/cfgA/run_1", path |-> <<"runs", "cfgA", "run_1">>,
     slash |-> FALSE],
    [str |-> "runs/run_1", path |-> <<"runs", "run_1">>, slash |-> FALSE] }

NoRoot == [str |-> "", path |-> <<>>, slash |-> FALSE]

\* lock file content; NoFile stands for the absent file
NoFile == "<absent>"
OtherRun == "other-run"

\* what a leaf's work function does: return an exit code or raise
WorkOutcomes ==
  { [raise |-> FALSE, code |-> 0], [raise |-> FALSE, code |-> 1],
    [raise |-> TRUE, code |-> 0] }

\* ... together with whether the copyfile calls of copy_config fail
Outcomes ==
  { [raise |-> w.raise, code |-> w.code, copyfail |-> c] :
      w \in WorkOutcomes, c \in BOOLEAN }

\* the value of `lambda: None`
NoneCode == -999

VARIABLES tree, listing, success, failed, lockFile, started,
          pc, root, tasks, pos, dpos, result,
          nWork, nCopy, nRaise, startMarked, ran, raisedAt, copyFailedAt,
          afterClean

vars == <<tree, listing, success, failed, lockFile, started,
          pc, root, tasks, pos, dpos, result,
          nWork, nCopy, nRaise, startMarked, ran, raisedAt, copyFailedAt,
          afterClean>>

\* ---------------------------------------------------- directory helpers
Reverse(s) == [k \in 1..Len(s) |-> s[Len(s) + 1 - k]]

\* Path.iterdir() restricted to directories, in listing order
Subdirs(tr, ls, d) ==
  LET names == SelectSeq(NameOrder, LAMBDA n : Append(d, n) \in tr)
      asc == [k \in 1..Len(names) |-> Append(d, names[k])]
  IN IF ls = "asc" THEN asc ELSE Reverse(asc)

Range(s) == {s[k] : k \in 1..Len(s)}

HasSubdir(tr, d) == \E e \in tr : Len(e) = Len(d) + 1 /\ SubSeq(e, 1, Len(d)) = d

RECURSIVE Rglob(_, _, _)
RECURSIVE RglobEach(_, _, _, _)
\* Path(d).rglob("*"): the entries of d, then the walk of each sub-directory
Rglob(tr, ls, d) ==
  LET subs == Subdirs(tr, ls, d) IN subs \o RglobEach(tr, ls, subs, 1)

RglobEach(tr, ls, subs, k) ==
  IF k > Len(subs) THEN <<>>
  ELSE Rglob(tr, ls, subs[k]) \o RglobEach(tr, ls, subs, k + 1)

\* 'runs/' in tasks_directory
ContainsRunsSlash(r) ==
  \E k \in 1..Len(r.path) : r.path[k] = "runs" /\ (k < Len(r.path) \/ r.slash)

\* 'run_' in self.tasks_dir
ContainsRunUnderscore(r) == \E k \in 1..Len(r.path) : r.path[k] \in RunNames

\* the test of Task.__init__ on `name`
ValidTaskName(tr, p) ==
  (p \in tr /\ Len(p) >= 2 /\ p[1] = "runs") \/ p = RUNS

\* ------------------------------------------------------------- Task
\* Task.__init__: the fields of a freshly constructed Task
Task(name, is_parent) ==
  [name |-> name, is_parent |-> is_parent, dependencies |-> <<>>,
   status |-> "None", completed |-> FALSE]

\* the names of the tasks create_tasks appends, in order: the main task,
\* the task of tasks_dir, one task per directory of the walk
TaskNames(tr, ls, r) == <<RUNS, r.path>> \o Rglob(tr, ls, r.path)

\* the is_parent flag create_tasks gives the k-th task
TaskIsParent(tr, ls, r, k) ==
  IF k = 1 THEN TRUE
  ELSE IF k = 2 THEN ~ContainsRunUnderscore(r)
  ELSE HasSubdir(tr, TaskNames(tr, ls, r)[k])

\* "Set dependencies": the tasks whose path is an immediate sub-directory,
\* in the order of the task list, as indices into the task list
Dependencies(tr, ls, names, k) ==
  LET subs == Range(Subdirs(tr, ls, names[k]))
      idx == [j \in 1..Len(names) |-> j]
  IN SelectSeq(idx, LAMBDA j : names[j] \in subs)

\* the task list before the check_status pass
BuildTasks(tr, ls, r) ==
  LET names == TaskNames(tr, ls, r)
  IN [k \in 1..Len(names) |->
        LET par == TaskIsParent(tr, ls, r, k)
        IN [Task(names[k], par) EXCEPT
              !.dependencies =
                 IF par THEN Dependencies(tr, ls, names, k) ELSE <<>>]]

\* Path(self.name, 'FAILED').touch()
MarkFailedClearingSuccess(st, name) ==
  [st EXCEPT !.f = @ \cup {name}, !.s = @ \ {name}]

MarkFailed(st, name) == [st EXCEPT !.f = @ \cup {name}]

\* Path(self.name, 'SUCCESS').touch()
MarkSuccess(st, name) == [st EXCEPT !.s = @ \cup {name}]

RECURSIVE CheckStatus(_, _)
RECURSIVE CheckDependencies(_, _, _)
\* Task.check_status on task k. st = [t: task list, s: directories holding
\* SUCCESS, f: directories holding FAILED]
CheckStatus(st, k) ==
  LET me == st.t[k] IN
  IF me.is_parent THEN CheckDependencies(st, k, 1)
  ELSE IF me.name \in st.s
       THEN [st EXCEPT !.t[k].status = "SUCCESS", !.t[k].completed = TRUE]
  ELSE IF me.name \in st.f
       THEN [st EXCEPT !.t[k].status = "FAILED", !.t[k].completed = TRUE]
  ELSE [st EXCEPT !.t[k].completed = FALSE]

\* the loop over self.dependencies from position j, then "Set status"
CheckDependencies(st, k, j) ==
  LET me == st.t[k] IN
  IF j > Len(me.dependencies)
  THEN IF me.name \in st.f
       THEN [st EXCEPT !.t[k].completed = TRUE, !.t[k].status = "FAILED"]
       ELSE MarkSuccess([st EXCEPT !.t[k].completed = TRUE,
                                   !.t[k].status = "SUCCESS"], me.name)
  ELSE LET d == me.dependencies[j]
           st1 == CheckStatus(st, d)
       IN IF ~st1.t[d].completed
          THEN [st1 EXCEPT !.t[k].completed = FALSE]
          ELSE IF st1.t[d].status # "SUCCESS"
               THEN CheckDependencies(MarkFailed(st1, me.name), k, j + 1)
               ELSE CheckDependencies(st1, k, j + 1)

RECURSIVE CheckAll(_, _)
\* "Update dependencies": task.check_status() for every task from k on
CheckAll(st, k) ==
  IF k > Len(st.t) THEN st ELSE CheckAll(CheckStatus(st, k), k + 1)

\* create_tasks as a whole
CreateTasks(tr, ls, r, s, f) ==
  CheckAll([t |-> BuildTasks(tr, ls, r), s |-> s, f |-> f], 1)

\* copy_config copies only when the parent directory is not named 'runs'
CopiesConfig(p) == ~(Len(p) >= 2 /\ p[Len(p) - 1] = "runs")

\* Task.run, lines 161-168: the return code of a parent from its subtasks
ParentReturnCode(t, k) ==
  LET deps == t[k].dependencies IN
  IF deps = <<>> THEN NoneCode
  ELSE IF \E j \in 1..Len(deps) :
            ~t[deps[j]].completed \/ t[deps[j]].status # "SUCCESS"
       THEN 1 ELSE 0

\* Task.run, line 146: the test that makes run() a no-op
AlreadyCompletedNever(task) == FALSE

AlreadyCompletedOnlySuccess(task) == task.completed /\ task.status = "SUCCESS"

AlreadyCompletedOnlyFailed(task) == task.completed /\ task.status = "FAILED"

AlreadyCompleted(task) == task.completed

\* Task.run, lines 154-173: the run ends in the except clause (exit(1))
\* exactly when the work function raises; a parent's run_fn is a no-op
RaisesOnFailure(is_parent, oc) == ~is_parent /\ (oc.raise \/ oc.code # 0)

RaisesNever(is_parent, oc) == FALSE

Raises(is_parent, oc) == ~is_parent /\ oc.raise
\* copy_config, lines 70-79: a failing copyfile is caught and logged, so
\* copy_config never raises into Task.run
CopyConfigRaises(copies, oc) == FALSE

\* Task.run, lines 175-186: the marker and status chosen for a return code
MarkerForAlwaysSuccess(rc) == "SUCCESS"

MarkerFor(rc) == IF rc # 0 THEN "FAILED" ELSE "SUCCESS"

\* Task.run on task k with outcome oc of the copy and of the work function.
\* st = [t, s, f, w: work-function calls per directory, c: configuration
\* copies per directory, x: raising work-function calls per directory,
\* ran: <<directory, exit code>> of the leaves run, raised: directories
\* whose work function raised, cf: directories whose configuration copy
\* failed, exited: exit(1) was called]
TaskRun(st, k, oc) ==
  LET me == st.t[k] IN
  IF AlreadyCompleted(me) THEN st
  ELSE
    LET copies == CopiesConfig(me.name)
        st1 == [st EXCEPT
                  !.c[me.name] = IF copies THEN @ + 1 ELSE @,
                  !.cf = IF copies /\ oc.copyfail THEN @ \cup {me.name}
                         ELSE @]
        works == ~me.is_parent
        st2 == [st1 EXCEPT
                  !.w[me.name] = IF works THEN @ + 1 ELSE @,
                  !.raised = IF works /\ oc.raise THEN @ \cup {me.name}
                             ELSE @,
                  !.x[me.name] = IF works /\ oc.raise THEN @ + 1 ELSE @]
        rc == IF me.is_parent THEN ParentReturnCode(st.t, k) ELSE oc.code
        st3 == [st2 EXCEPT
                  !.ran = IF works THEN @ \cup {<<me.name, rc>>} ELSE @,
                  !.t[k].completed = TRUE,
                  !.t[k].status = MarkerFor(rc)]
    IN IF CopyConfigRaises(copies, oc) THEN [st1 EXCEPT !.exited = TRUE]
       ELSE IF Raises(me.is_parent, oc) THEN [st2 EXCEPT !.exited = TRUE]
       ELSE IF MarkerFor(rc) = "FAILED" THEN MarkFailed(st3, me.name)
       ELSE MarkSuccess(st3, me.name)

\* ------------------------------------------------------------- Lock
\* Lock.acquire, line 15: os.path.exists(LOCK_FILE)
LockExistsNever(lf) == FALSE

LockExists(lf) == lf # NoFile

\* Lock.acquire, lines 20-21: open(LOCK_FILE, 'w') and write the label
LockWrite(lf, label) == label

\* Lock.release
LockReleaseNever(lf) == lf

LockRelease(lf) == IF LockExists(lf) THEN NoFile ELSE lf

\* TaskRunner.run, lines 300-301: the finally clause, reached with the
\* way the try block was left ("ret0" or "exit1")
RunFinallyOnReturnOnly(lf, how) == IF how = "exit1" THEN lf ELSE LockRelease(lf)

RunFinally(lf, how) == LockRelease(lf)

\* ------------------------------------------------------ the state machine
\* everything but the markers on disk
InitProcesses ==
  /\ tree \in Trees
  /\ listing \in Listings
  /\ lockFile \in {NoFile, OtherRun}
  /\ started = 0
  /\ pc = [i \in Procs |-> "idle"]
  /\ root = [i \in Procs |-> NoRoot]
  /\ tasks = [i \in Procs |-> <<>>]
  /\ pos = [i \in Procs |-> 1]
  /\ dpos = [i \in Procs |-> 1]
  /\ result = [i \in Procs |-> "none"]
  /\ nWork = [d \in AllDirs |-> 0]
  /\ nCopy = [d \in AllDirs |-> 0]
  /\ nRaise = [d \in AllDirs |-> 0]
  /\ startMarked = [i \in Procs |-> {}]
  /\ ran = [i \in Procs |-> {}]
  /\ raisedAt = [i \in Procs |-> {}]
  /\ copyFailedAt = [i \in Procs |-> {}]
  /\ afterClean = [i \in Procs |-> FALSE]

\* a sweep tree without markers
Init == InitProcesses /\ success = {} /\ failed = {}

\* the run of the process in slot i was a sweep of the whole tree that
\* returned 0 with every leaf's work function returning 0
CleanRun(i) ==
  /\ pc[i] = "done" /\ result[i] = "ret0"
  /\ root[i].path = RUNS
  /\ \A k \in 1..Len(tasks[i]) :
       ~tasks[i][k].is_parent => <<tasks[i][k].name, 0>> \in ran[i]

\* a new scheduler process starts in slot i with tasks_directory r
StartProcess(i, r) ==
  /\ pc[i] \in {"idle", "done"}
  /\ started < MaxInv
  /\ started' = started + 1
  /\ root' = [root EXCEPT ![i] = r]
  /\ pos' = [pos EXCEPT ![i] = 1]
  /\ dpos' = [dpos EXCEPT ![i] = 1]
  /\ startMarked' = [startMarked EXCEPT ![i] = success \cup failed]
  /\ ran' = [ran EXCEPT ![i] = {}]
  /\ raisedAt' = [raisedAt EXCEPT ![i] = {}]
  /\ copyFailedAt' = [copyFailedAt EXCEPT ![i] = {}]
  /\ afterClean' = [afterClean EXCEPT ![i] = CleanRun(i) /\ r.path = RUNS]

\* TaskRunner.__init__, lines 191-192: exit(...) on a root without 'runs/'
TaskRunnerInitExit(i) ==
  \E r \in Roots :
    /\ StartProcess(i, r)
    /\ ~ContainsRunsSlash(r)
    /\ pc' = [pc EXCEPT ![i] = "done"]
    /\ result' = [result EXCEPT ![i] = "exit"]
    /\ tasks' = [tasks EXCEPT ![i] = <<>>]
    /\ UNCHANGED <<tree, listing, success, failed, lockFile, nWork, nCopy, nRaise>>

\* create_tasks, lines 209-210 and Task.__init__: ValueError
CreateTasksError(i) ==
  \E r \in Roots :
    /\ StartProcess(i, r)
    /\ ContainsRunsSlash(r)
    /\ r.path \notin tree \/ ~ValidTaskName(tree, r.path)
    /\ pc' = [pc EXCEPT ![i] = "done"]
    /\ result' = [result EXCEPT ![i] = "error"]
    /\ tasks' = [tasks EXCEPT ![i] = <<>>]
    /\ UNCHANGED <<tree, listing, success, failed, lockFile, nWork, nCopy, nRaise>>

\* TaskRunner.__init__ with an accepted root: create_tasks builds the task
\* list and runs check_status on every task
TaskRunnerInit(i) ==
  \E r \in Roots :
    /\ StartProcess(i, r)
    /\ ContainsRunsSlash(r)
    /\ r.path \in tree /\ ValidTaskName(tree, r.path)
    /\ LET st == CreateTasks(tree, listing, r, success, failed)
       IN /\ tasks' = [tasks EXCEPT ![i] = st.t]
          /\ success' = st.s
          /\ failed' = st.f
    /\ pc' = [pc EXCEPT ![i] = "ready"]
    /\ result' = [result EXCEPT ![i] = "none"]
    /\ UNCHANGED <<tree, listing, lockFile, nWork, nCopy, nRaise>>

\* the process ends without calling run (cli.py constructs the TaskRunner
\* and prints the status)
StatusOnly(i) ==
  /\ pc[i] = "ready"
  /\ pc' = [pc EXCEPT ![i] = "done"]
  /\ result' = [result EXCEPT ![i] = "norun"]
  /\ UNCHANGED <<tree, listing, success, failed, lockFile, started, root,
                 tasks, pos, dpos, nWork, nCopy, nRaise, startMarked, ran, raisedAt,
                 copyFailedAt, afterClean>>

\* Lock.acquire, lines 15-17: the existence test
AcquireTest(i) ==
  /\ pc[i] = "ready"
  /\ pc' = [pc EXCEPT ![i] = IF LockExists(lockFile) THEN "denied"
                             ELSE "acquiring"]
  /\ UNCHANGED <<tree, listing, success, failed, lockFile, started, root,
                 tasks, pos, dpos, result, nWork, nCopy, nRaise, startMarked,
                 ran, raisedAt, copyFailedAt, afterClean>>

\* Lock.acquire, lines 20-22: the file is written and True is returned
AcquireWrite(i) ==
  /\ pc[i] = "acquiring"
  /\ lockFile' = LockWrite(lockFile, root[i].str)
  /\ pc' = [pc EXCEPT ![i] = "loop"]
  /\ UNCHANGED <<tree, listing, success, failed, started, root, tasks, pos,
                 dpos, result, nWork, nCopy, nRaise, startMarked, ran, raisedAt,
                 copyFailedAt, afterClean>>

\* TaskRunner.run, lines 284-287: acquire returned False; the lock file is
\* opened and read, then 1 is returned (open raises when the file is gone)
ReadLabel(i) ==
  /\ pc[i] = "denied"
  /\ pc' = [pc EXCEPT ![i] = "done"]
  /\ result' = [result EXCEPT ![i] = IF LockExists(lockFile) THEN "ret1"
                                     ELSE "error"]
  /\ UNCHANGED <<tree, listing, success, failed, lockFile, started, root,
                 tasks, pos, dpos, nWork, nCopy, nRaise, startMarked, ran, raisedAt,
                 copyFailedAt, afterClean>>

\* the task the loop of TaskRunner.run calls run() on at position (k, j):
\* the task itself when it has no dependencies, else its j-th dependency
Target(t, k, j) ==
  IF t[k].dependencies = <<>> THEN k ELSE t[k].dependencies[j]

\* whether run() is called at position (k, j) (line 293, or 297-299)
Calls(t, k, j) ==
  t[k].dependencies = <<>> \/ ~t[Target(t, k, j)].completed

\* TaskRunner.run, lines 290-299: one call of the loop body
RunStep(i) ==
  /\ pc[i] = "loop"
  /\ \E oc \in Outcomes :
       LET t == tasks[i]
           k == pos[i]
           j == dpos[i]
           st0 == [t |-> t, s |-> success, f |-> failed, w |-> nWork,
                   c |-> nCopy, x |-> nRaise, ran |-> ran[i],
                   raised |-> raisedAt[i], cf |-> copyFailedAt[i],
                   exited |-> FALSE]
           st == IF Calls(t, k, j) THEN TaskRun(st0, Target(t, k, j), oc)
                 ELSE st0
           more == t[k].dependencies # <<>> /\ j < Len(t[k].dependencies)
           k2 == IF more THEN k ELSE k + 1
           j2 == IF more THEN j + 1 ELSE 1
       IN /\ tasks' = [tasks EXCEPT ![i] = st.t]
          /\ success' = st.s
          /\ failed' = st.f
          /\ nWork' = st.w
          /\ nCopy' = st.c
          /\ nRaise' = st.x
          /\ ran' = [ran EXCEPT ![i] = st.ran]
          /\ raisedAt' = [raisedAt EXCEPT ![i] = st.raised]
          /\ copyFailedAt' = [copyFailedAt EXCEPT ![i] = st.cf]
          /\ IF st.exited
             THEN /\ pc' = [pc EXCEPT ![i] = "finally"]
                  /\ result' = [result EXCEPT ![i] = "exit1"]
                  /\ UNCHANGED <<pos, dpos>>
             ELSE /\ pos' = [pos EXCEPT ![i] = k2]
                  /\ dpos' = [dpos EXCEPT ![i] = j2]
                  /\ IF k2 > Len(t)
                     THEN /\ pc' = [pc EXCEPT ![i] = "finally"]
                          /\ result' = [result EXCEPT ![i] = "ret0"]
                     ELSE UNCHANGED <<pc, result>>
  /\ UNCHANGED <<tree, listing, lockFile, started, root, startMarked,
                 afterClean>>

\* TaskRunner.run, lines 300-303: the finally clause, then the process ends
Release(i) ==
  /\ pc[i] = "finally"
  /\ lockFile' = RunFinally(lockFile, result[i])
  /\ pc' = [pc EXCEPT ![i] = "done"]
  /\ UNCHANGED <<tree, listing, success, failed, started, root, tasks, pos,
                 dpos, result, nWork, nCopy, nRaise, startMarked, ran, raisedAt,
                 copyFailedAt, afterClean>>

ProcNext(i) ==
  \/ TaskRunnerInitExit(i)
  \/ CreateTasksError(i)
  \/ TaskRunnerInit(i)
  \/ StatusOnly(i)
  \/ AcquireTest(i)
  \/ AcquireWrite(i)
  \/ ReadLabel(i)
  \/ RunStep(i)
  \/ Release(i)

\* invocations one after the other: every process runs in slot 1
Next == ProcNext(1)

Spec == Init /\ [][Next]_vars

\* invocations that overlap on the same host: one process per slot, on the
\* flat tree
ConcInit == Init /\ tree = FlatTree /\ listing = "asc"

ConcNext == \E i \in Procs : pc[i] # "done" /\ ProcNext(i)

ConcSpec == ConcInit /\ [][ConcNext]_vars

\* ------------------------------------------------------------ properties
Marked(d) == d \in success \cup failed

\* process i is inside the locked section of TaskRunner.run
InLockedSection(i) == pc[i] \in {"loop", "finally"}

\* the directories whose work function process i has invoked
InvokedBy(i) == {p[1] : p \in ran[i]} \cup raisedAt[i]

\* the task indices of process i
TaskIdx(i) == 1..Len(tasks[i])

\* d is a proper ancestor directory of e
IsAncestor(d, e) == Len(d) < Len(e) /\ SubSeq(e, 1, Len(d)) = d

\* C1: of two overlapping invocations at most one is inside the locked
\* section of TaskRunner.run at any time.
MutualExclusion ==
  \A i, j \in Procs : i # j => ~(InLockedSection(i) /\ InLockedSection(j))

\* C2: whenever an invocation leaves the locked section of TaskRunner.run,
\* by normal completion or by exit(1) after a raising work function, the
\* lock file is gone when the process ends.
LockReleasedOnEveryExit ==
  [][\A i \in Procs :
       (pc[i] = "finally" /\ pc'[i] = "done") => ~LockExists(lockFile')]_vars

LockReleasedAfterRaise ==
  pc[1] = "done" /\ result[1] = "exit1" /\ raisedAt[1] # {}
  /\ ~LockExists(lockFile)

\* C3: a parent is completed, or has a marker written into its directory by
\* the invocation, only when every one of its dependencies is completed and
\* holds a marker.
OrderingGuarantee ==
  \A i \in Procs : \A k \in TaskIdx(i) :
    LET P == tasks[i][k] IN
    (P.completed \/ (Marked(P.name) /\ P.name \notin startMarked[i])) =>
      \A j \in 1..Len(P.dependencies) :
        LET C == tasks[i][P.dependencies[j]]
        IN C.completed /\ Marked(C.name)

\* C4: after check_status, a parent whose dependencies are all completed is
\* Success iff every dependency is Success, and Failed otherwise.
AggregationCorrect ==
  \A i \in Procs : pc[i] = "ready" =>
    \A k \in TaskIdx(i) :
      LET P == tasks[i][k]
          D == {P.dependencies[j] : j \in 1..Len(P.dependencies)}
      IN (P.is_parent /\ D # {} /\ \A d \in D : tasks[i][d].completed) =>
           IF \A d \in D : tasks[i][d].status = "SUCCESS"
           THEN P.status = "SUCCESS" ELSE P.status = "FAILED"

\* C5: no directory holds both a SUCCESS and a FAILED marker.
MarkerExclusivity == success \cap failed = {}

\* C6 as stated: no invocation invokes the work function of a leaf that held
\* a marker when the invocation started, and every leaf's work function is
\* invoked at most once per directory.
ResumeAtMostOnce ==
  /\ \A i \in Procs : InvokedBy(i) \cap startMarked[i] = {}
  /\ \A d \in AllDirs : nWork[d] <= 1

\* C6 amended: no invocation invokes the work function of a leaf that held a
\* marker when the invocation started, and every leaf's work function
\* returns an exit code at most once per directory (a call that raised
\* leaves no marker and the leaf is invoked again).
ResumeWithoutRerun ==
  /\ \A i \in Procs : InvokedBy(i) \cap startMarked[i] = {}
  /\ \A d \in AllDirs : nWork[d] - nRaise[d] <= 1

ResumedPastMarkedLeaf ==
  /\ pc[1] = "done" /\ result[1] = "ret0"
  /\ \E k \in TaskIdx(1) :
       /\ ~tasks[1][k].is_parent
       /\ tasks[1][k].name \in startMarked[1]
       /\ nWork[tasks[1][k].name] = 1
  /\ InvokedBy(1) # {}

\* C7: a call of Task.run on a completed unit invokes no work function,
\* copies no configuration and changes no marker, status or completed flag.
IdempotentRun ==
  [][\A i \in Procs :
       (/\ pc[i] = "loop"
        /\ <<pc[i], pos[i], dpos[i]>> # <<pc'[i], pos'[i], dpos'[i]>>
        /\ tasks[i][pos[i]].dependencies = <<>>
        /\ tasks[i][pos[i]].completed)
       => /\ UNCHANGED <<success, failed, nWork, nCopy, nRaise>>
          /\ tasks'[i] = tasks[i]
          /\ ran'[i] = ran[i]]_vars

RunCalledOnCompleted ==
  /\ pc[1] \in {"loop", "finally"}
  /\ \E k \in TaskIdx(1) :
       /\ k < pos[1]
       /\ tasks[1][k].dependencies = <<>>
       /\ ~tasks[1][k].is_parent
       /\ tasks[1][k].name \in startMarked[1]
       /\ tasks[1][k].status = "FAILED"

\* C8: when run returns from a sweep of the whole tree that started without
\* markers and in which every work function returned 0, every unit is
\* Success and holds a SUCCESS marker and no FAILED marker.
AllSuccessSweep ==
  \A i \in Procs :
    (/\ pc[i] = "done" /\ result[i] = "ret0"
     /\ root[i].path = RUNS
     /\ startMarked[i] = {}
     /\ \A p \in ran[i] : p[2] = 0)
    => \A k \in TaskIdx(i) :
         /\ tasks[i][k].status = "SUCCESS"
         /\ tasks[i][k].name \in success
         /\ tasks[i][k].name \notin failed

\* C9: a nonzero exit code does not abort the run: the run is left through
\* exit(1) only after a raising work function, and when run returns 0 every
\* leaf of the task list is completed, every leaf without a marker at the
\* start was executed, and every executed leaf holds exactly the marker of
\* its exit code.
FailureIsolation ==
  \A i \in Procs :
    /\ result[i] = "exit1" => raisedAt[i] # {}
    /\ (pc[i] \in {"finally", "done"} /\ result[i] = "ret0") =>
         /\ \A k \in TaskIdx(i) :
              ~tasks[i][k].is_parent =>
                /\ tasks[i][k].completed
                /\ tasks[i][k].name \notin startMarked[i]
                     => \E p \in ran[i] : p[1] = tasks[i][k].name
         /\ \A p \in ran[i] :
              IF p[2] = 0
              THEN p[1] \in success /\ p[1] \notin failed
              ELSE p[1] \in failed /\ p[1] \notin success

FailedLeafSiblingRan ==
  /\ pc[1] = "done" /\ result[1] = "ret0"
  /\ \E p, q \in ran[1] : p[2] # 0 /\ q[2] = 0 /\ p[1] # q[1]

\* C10: when run returns and a leaf's work function returned nonzero during
\* it, every unit of an ancestor directory of that leaf is Failed.
FailurePropagation ==
  \A i \in Procs :
    (pc[i] = "done" /\ result[i] = "ret0") =>
      \A p \in ran[i] :
        p[2] # 0 =>
          \A k \in TaskIdx(i) :
            IsAncestor(tasks[i][k].name, p[1]) => tasks[i][k].status = "FAILED"

\* the flat tree with any markers on disk, as left behind by overlapping
\* runs or written by hand
DiskInit ==
  /\ InitProcesses
  /\ tree = FlatTree
  /\ success \in SUBSET FlatTree
  /\ failed \in SUBSET FlatTree

DiskSpec == DiskInit /\ [][Next]_vars

\* C11: a run that finds the lock file of another run returns 1 and changes
\* neither a marker, nor a task, nor the lock file, and invokes no work
\* function.
LockContentionNoEffect ==
  [][\A i \in Procs :
       (/\ lockFile = OtherRun
        /\ pc[i] \in {"ready", "denied"}
        /\ pc'[i] # pc[i]
        /\ result'[i] # "norun")
       => /\ pc'[i] \in {"denied", "done"}
          /\ pc'[i] = "done" => result'[i] = "ret1"
          /\ UNCHANGED <<success, failed, lockFile, nWork, nCopy, tasks>>]_vars

LockContentionSeen ==
  pc[1] = "done" /\ result[1] = "ret1" /\ lockFile = OtherRun /\ success # {}

\* C12: the step in which a leaf's work function raises ends the run loop
\* with exit(1), writes no marker and leaves the leaf Pending; after it the
\* invocation executes nothing more.
FailFastOnException ==
  [][\A i \in Procs :
       /\ raisedAt'[i] \ raisedAt[i] # {} =>
            /\ pc'[i] = "finally" /\ result'[i] = "exit1"
            /\ UNCHANGED <<success, failed>>
            /\ \A d \in raisedAt'[i] :
                 /\ d \notin success' \cup failed'
                 /\ \A k \in 1..Len(tasks'[i]) :
                      tasks'[i][k].name = d =>
                        /\ ~tasks'[i][k].completed
                        /\ tasks'[i][k].status = "None"
       /\ (pc[i] = "finally" /\ result[i] = "exit1") =>
            /\ pc'[i] \in {"finally", "done"}
            /\ UNCHANGED <<success, failed, nWork, nCopy, tasks>>]_vars

RaisedBeforeLaterUnit ==
  /\ pc[1] = "done" /\ result[1] = "exit1"
  /\ \E d \in raisedAt[1] : ~Marked(d)
  /\ \E k \in TaskIdx(1) :
       /\ ~tasks[1][k].is_parent
       /\ ~tasks[1][k].completed
       /\ tasks[1][k].name \notin raisedAt[1]

\* C13: after check_status, a unit whose directory holds both SUCCESS and
\* FAILED is Failed; checked for the units whose status check_status sets
\* (a leaf, or a parent whose dependencies are all completed).
InconsistentMarkersFailed ==
  \A i \in Procs : pc[i] = "ready" =>
    \A k \in TaskIdx(i) :
      (/\ tasks[i][k].name \in success \cap failed
       /\ tasks[i][k].completed)
      => tasks[i][k].status = "FAILED"

\* C14: once the unit of a directory is Success or Failed, no step gives the
\* unit of that directory another status.
TerminalStatus ==
  [][\A i \in Procs : \A k \in TaskIdx(i) : \A k2 \in 1..Len(tasks'[i]) :
       (/\ tasks[i][k].name = tasks'[i][k2].name
        /\ tasks[i][k].status \in {"SUCCESS", "FAILED"})
       => tasks'[i][k2].status = tasks[i][k].status]_vars

\* C15: the invocation that follows a whole sweep in which every work
\* function returned 0 invokes no work function, and gives every unit the
\* status it had when the sweep returned.
RerunFixpoint ==
  /\ [](\A i \in Procs : afterClean[i] => InvokedBy(i) = {})
  /\ [][\A i \in Procs :
          (afterClean'[i] /\ pc[i] = "done" /\ pc'[i] = "ready") =>
            \A k \in TaskIdx(i) :
              /\ k <= Len(tasks'[i])
              /\ tasks'[i][k].status = tasks[i][k].status]_vars

\* C16: check_status leaves a parent with a dependency that is not completed
\* Pending, not completed, and writes no marker into its directory.
ParentNotJudged ==
  [][\A i \in Procs :
       (pc[i] # "ready" /\ pc'[i] = "ready") =>
         \A k \in 1..Len(tasks'[i]) :
           LET P == tasks'[i][k] IN
           (/\ P.is_parent
            /\ \E j \in 1..Len(P.dependencies) :
                 ~tasks'[i][P.dependencies[j]].completed)
           => /\ ~P.completed
              /\ P.status = "None"
              /\ P.name \in success' => P.name \in success
              /\ P.name \in failed' => P.name \in failed]_vars

\* C17: a unit whose configuration copy failed has its work function not
\* invoked and gets no marker, and the invocation is ended by exit(1).
CopyFailureFatal ==
  \A i \in Procs : \A d \in copyFailedAt[i] :
    /\ d \notin InvokedBy(i)
    /\ ~Marked(d)
    /\ pc[i] \in {"finally", "done"} /\ result[i] = "exit1"

\* C18: the step in which a leaf's work function returns c touches exactly
\* one marker in the leaf's directory, SUCCESS for c = 0 and FAILED
\* otherwise, and sets completed and the matching status.
ExitCodeToMarker ==
  [][\A i \in Procs : \A p \in ran'[i] \ ran[i] :
       LET d == p[1]
           m == IF p[2] = 0 THEN "SUCCESS" ELSE "FAILED"
       IN /\ success' = IF m = "SUCCESS" THEN success \cup {d} ELSE success
          /\ failed' = IF m = "FAILED" THEN failed \cup {d} ELSE failed
          /\ d \in success' => d \notin failed'
          /\ \A k \in 1..Len(tasks'[i]) :
               tasks'[i][k].name = d =>
                 tasks'[i][k].completed /\ tasks'[i][k].status = m]_vars

NonzeroLeafMarkedFailed ==
  /\ pc[1] = "loop"
  /\ \E p \in ran[1] : p[2] # 0 /\ p[1] \in failed \ success

\* C19: no step removes a SUCCESS or FAILED marker.
MarkersNeverDeleted ==
  [][success \subseteq success' /\ failed \subseteq failed']_vars

FailedTouchedNextToSuccess == success \cap failed # {}

\* C20: acquire leaves a present lock file as it is and is denied, and on an
\* absent file goes on to write exactly its label; release leaves no lock
\* file, whether or not one was there, and raises nothing.
LockContract ==
  [][\A i \in Procs :
       /\ (pc[i] = "ready" /\ pc'[i] # "ready" /\ result'[i] # "norun") =>
            /\ lockFile' = lockFile
            /\ pc'[i] = IF lockFile = NoFile THEN "acquiring" ELSE "denied"
       /\ (pc[i] = "acquiring" /\ pc'[i] # "acquiring") =>
            pc'[i] = "loop" /\ lockFile' = root[i].str
       /\ (pc[i] = "finally" /\ pc'[i] # "finally") =>
            /\ pc'[i] = "done"
            /\ lockFile' = NoFile
            /\ result'[i] = result[i]]_vars

SecondReleasePending ==
  /\ pc[1] = "done" /\ result[1] = "ret0"
  /\ pc[2] = "finally" /\ lockFile = NoFile

\* e is an immediate sub-directory of d
IsChildDir(d, e) == Len(e) = Len(d) + 1 /\ SubSeq(e, 1, Len(d)) = d

\* the dependencies of task k of process i after the step, as task indices
DepsAfter(i, k) == Range(tasks'[i][k].dependencies)

\* C21: a step writes FAILED into a parent's directory only when one of the
\* parent's dependencies is Failed, and SUCCESS only when all of them are
\* Success.
ParentTransitions ==
  [][\A i \in Procs : \A k \in 1..Len(tasks'[i]) :
       LET P == tasks'[i][k] IN
       P.is_parent =>
         /\ P.name \in failed' \ failed =>
              \E d \in DepsAfter(i, k) : tasks'[i][d].status = "FAILED"
         /\ P.name \in success' \ success =>
              \A d \in DepsAfter(i, k) : tasks'[i][d].status = "SUCCESS"]_vars

\* C22: after create_tasks and before any unit is executed, every unit is
\* Success iff its directory holds SUCCESS, Failed iff it holds FAILED, and
\* Pending and not completed iff it holds neither.
StatusReflectsDisk ==
  \A i \in Procs : pc[i] = "ready" =>
    \A k \in TaskIdx(i) :
      LET T == tasks[i][k] IN
      /\ T.status = "SUCCESS" <=> T.name \in success
      /\ T.status = "FAILED" <=> T.name \in failed
      /\ (T.status = "None" /\ ~T.completed) <=> ~Marked(T.name)

\* C23: no two units of a task list have the same directory.
OneUnitPerDirectory ==
  \A i \in Procs : \A k, k2 \in TaskIdx(i) :
    k # k2 => tasks[i][k].name # tasks[i][k2].name

\* C24: a unit is a parent iff a unit of the task list sits in an immediate
\* sub-directory of its directory, and that is so iff its dependency list is
\* not empty.
ParentIffChildUnits ==
  \A i \in Procs : \A k \in TaskIdx(i) :
    LET T == tasks[i][k]
        hasChildUnit ==
          \E k2 \in TaskIdx(i) : IsChildDir(T.name, tasks[i][k2].name)
    IN /\ T.is_parent <=> hasChildUnit
       /\ hasChildUnit <=> T.dependencies # <<>>

\* C25: a run whose acquire returned False returns 1.
FailedAcquireReturnsOne ==
  [][\A i \in Procs :
       (pc[i] = "denied" /\ pc'[i] # "denied") => result'[i] = "ret1"]_vars

\* C26: the construction of a TaskRunner succeeds iff the root is the sweep
\* root or a directory beneath it, and a construction that does not succeed
\* creates no unit and writes no marker.
RootValidation ==
  [][\A i \in Procs :
       (/\ started' # started
        /\ pc[i] \in {"idle", "done"}
        /\ root'[i] # NoRoot)
       => LET r == root'[i] IN
          /\ (r.path \in tree /\ r.path[1] = "runs") <=> pc'[i] = "ready"
          /\ pc'[i] # "ready" =>
               tasks'[i] = <<>> /\ UNCHANGED <<success, failed>>]_vars

\* the process in slot i is terminated directly (SIGKILL) inside the try
\* block of TaskRunner.run: neither the finally clause nor anything else of
\* the process runs any more; result records whether the lock file was on
\* disk at that moment
Kill(i) ==
  /\ pc[i] \in {"loop", "finally"}
  /\ pc' = [pc EXCEPT ![i] = "done"]
  /\ result' = [result EXCEPT ![i] = IF LockExists(lockFile) THEN "killed"
                                     ELSE "killed_unlocked"]
  /\ UNCHANGED <<tree, listing, success, failed, lockFile, started, root,
                 tasks, pos, dpos, nWork, nCopy, nRaise, startMarked, ran,
                 raisedAt, copyFailedAt, afterClean>>

\* overlapping invocations, any of which may be killed
CrashNext == ConcNext \/ \E i \in Procs : Kill(i)

CrashSpec == ConcInit /\ [][CrashNext]_vars

\* C27: after an invocation was killed while it held the lock, the lock
\* file stays on disk and the acquire of every run that starts afterwards
\* is denied.
StaleLockStays ==
  /\ [](\A i \in Procs : result[i] = "killed" => LockExists(lockFile))
  /\ [][\A j \in Procs :
          (/\ \E i \in Procs : result[i] = "killed"
           /\ pc[j] = "ready" /\ pc'[j] # "ready"
           /\ result'[j] # "norun")
          => pc'[j] = "denied"]_vars

\* C28: every step that creates a SUCCESS or FAILED marker is taken by an
\* invocation that is inside the locked section of TaskRunner.run.
MarkersOnlyUnderLock ==
  [][(success' # success \/ failed' # failed) =>
       \E i \in Procs :
         /\ InLockedSection(i)
         /\ <<pc[i], pos[i], dpos[i], tasks[i]>>
              # <<pc'[i], pos'[i], dpos'[i], tasks'[i]>>]_vars

\* C29: the dependencies of every parent hold a unit for every immediate
\* sub-directory of the parent's directory; a step writes SUCCESS into a
\* parent's directory only when every immediate sub-directory holds SUCCESS
\* and the parent's dependency list is not empty.
ParentCoversDirectory ==
  /\ [](\A i \in Procs : \A k \in TaskIdx(i) :
          LET P == tasks[i][k] IN
          P.is_parent =>
            \A e \in tree :
              IsChildDir(P.name, e) =>
                \E j \in 1..Len(P.dependencies) :
                  tasks[i][P.dependencies[j]].name = e)
  /\ [][\A i \in Procs : \A k \in 1..Len(tasks'[i]) :
          LET P == tasks'[i][k] IN
          (P.is_parent /\ P.name \in success' \ success) =>
            /\ P.dependencies # <<>>
            /\ \A e \in tree : IsChildDir(P.name, e) => e \in success']_vars

\* C30: a step of the run loop invokes the work function of a leaf only
\* when the invocation has not invoked it before.
AtMostOncePerInvocation ==
  [][\A i \in Procs :
       (pc[i] = "loop" /\ <<pos[i], dpos[i], pc[i]>> # <<pos'[i], dpos'[i], pc'[i]>>)
       => \A d \in AllDirs :
            nWork'[d] # nWork[d] =>
              nWork'[d] = nWork[d] + 1 /\ d \notin InvokedBy(i)]_vars

\* a leaf that was run as a dependency of its parent has been reached
\* again as an entry of the task list
LeafReachedTwice ==
  /\ pc[1] = "loop"
  /\ \E k \in TaskIdx(1) :
       /\ k < pos[1]
       /\ ~tasks[1][k].is_parent
       /\ tasks[1][k].name \in InvokedBy(1)
       /\ \E q \in TaskIdx(1) :
            q < k /\ k \in Range(tasks[1][q].dependencies)

====
